---- MODULE Spec2Model ----
(***************************************************************************)
(* Scan execution pipeline of backend/server.py: the POST /api/scans       *)
(* handler run_scan with its admission checks, the ScanProgress record it  *)
(* maintains, the ScanRecord it stores, the per-user usage counter, and    *)
(* the GET /api/scans/{scan_id}/progress handler that polls the record.    *)
(*                                                                         *)
(* Every await of run_scan that reads or writes the document store is one  *)
(* step, so that a polling reader can observe every intermediate state.    *)
(* Time is counted in hours; datetime.utcnow() is the variable now.        *)
(***************************************************************************)
EXTENDS Integers, Naturals, Sequences, FiniteSets, TLC

(* ---------------------------- bounds ----------------------------------- *)
\* last hour the clock reaches (8 days and a half)
MaxTime == 204
\* number of scan ids (ScanProgress records) ever allocated
MaxScans == 2
\* number of LLM calls, over a run, that do not simply return a reply
\* mentioning the brand
MaxOdd == 1
\* number of lines in the LLM's reply to the query-generation prompt
MaxLines == 26
\* number of QueryResults in the corpus the competitor ranking is computed on
MaxCorpus == 2
\* number of per-scan domain records in a small store
MaxRecords == 3

(* ----------------------- program constants ----------------------------- *)
HoursPerDay == 24
WeekDays == 7
QuickCost == 5
StandardCost == 25
DeepCost == 50
CompetitorCost == 10
DefaultCost == 25
DefaultLimit == 50
PlanCap == 25
MinUsable == 15
FallbackLen == 25
FindLimit == 100

(* ----------------------------- inputs ---------------------------------- *)
Users == {"u1", "u2"}
Brands == {"A", "B"}
ScanTypes == {"quick", "standard", "deep", "competitor"}
\* the scan ids a reader asks get_scan_progress about
PollIds == {1, 2}
\* the requests in flight; run_scan is one coroutine per request
Reqs == {1}
\* two requests in flight at once, and the tier they ask for
ConcReqs == {1, 2}
ConcTypes == {"quick"}
\* scans_used of user u1 when the two requests arrive: a fresh account, and
\* one with room for exactly one more quick scan
ConcUsed == {0, 45}
\* clock steps: half a day, a day
TickSteps == {12, 24}
\* scans_used values found in the user document when the server starts
InitUsed == {0, 48}
\* number of usable lines in the LLM's reply to the query-generation prompt
UsableLines == {14, 15, 30}
\* what one LLM call of the dispatch loop does
LLMOutcomes == {"mention", "nomention", "api_error", "bad_reply"}
\* the document absent from a collection
NoDoc == [status |-> "none"]
NoTime == -1
\* db.source_domains and db.source_articles without any record
NoSources == [domains |-> <<>>, articles |-> <<>>]
\* no pure function is being applied
NoFx == [op |-> "none"]
\* no response of get_scan_progress is being sent
NoPoll == [code |-> 0, caller |-> "", scan_id |-> 0, status |-> "none",
           progress |-> 0, total_queries |-> 0, error |-> ""]

(* ------------------------------ state ---------------------------------- *)
VARIABLES
  configured,      \* openai importable and OPENAI_API_KEY set
  now,             \* datetime.utcnow(), in hours
  users,           \* db.users: scans_used, scans_limit
  brands,          \* db.brands: user_id, last_scanned, visibility_score
  scan_progress,   \* db.scan_progress, keyed by scan id
  scans,           \* db.scans, in insertion order
  rq,              \* locals of each run_scan request and its response
  poll,            \* the response get_scan_progress is sending, if any
  odd,             \* LLM calls so far that were not a plain mention
  source_db,       \* db.source_domains and db.source_articles, in insertion order
  fx               \* the pure function being applied: its input and its output

dbvars == <<configured, now, users, brands, scan_progress, scans, rq, poll, odd,
            source_db>>
vars == <<configured, now, users, brands, scan_progress, scans, rq, poll, odd,
          source_db, fx>>

ScanIds == 1..MaxScans

(* --------------------------- pure helpers ------------------------------ *)
\* scans_needed.get(scan_type, 25)
ScansNeeded(t) ==
  CASE t = "quick" -> QuickCost
    [] t = "standard" -> StandardCost
    [] t = "deep" -> DeepCost
    [] t = "competitor" -> CompetitorCost
    [] OTHER -> DefaultCost

\* a day count that rounds a started day up
DaysBetween_RoundUp(a, b) == (a - b + HoursPerDay - 1) \div HoursPerDay

\* timedelta.days of (a - b) for a >= b: whole days, rounded down
DaysBetween(a, b) == (a - b) \div HoursPerDay

\* a lookup of the user's ScanRecords that ignores the brand
ScansOf_AnyBrand(u, b) == {k \in 1..Len(scans) : scans[k].user_id = u}

\* indexes of the ScanRecords of (user, brand)
ScansOf(u, b) == {k \in 1..Len(scans) : scans[k].user_id = u /\ scans[k].brand_id = b}

\* find_one(..., sort=[("created_at", -1)]): a record with the largest created_at
LastScanAt(u, b) ==
  IF ScansOf(u, b) = {} THEN NoTime
  ELSE LET k == CHOOSE k \in ScansOf(u, b) :
                  \A j \in ScansOf(u, b) : scans[j].created_at <= scans[k].created_at
       IN scans[k].created_at

\* a weekly check that also refuses a brand with a scan still running
CanScan_NotRunning(u, b) ==
  /\ \A id \in ScanIds :
       ~(scan_progress[id] # NoDoc /\ scan_progress[id].status = "running"
         /\ scan_progress[id].user_id = u /\ scan_progress[id].brand_id = b)
  /\ (LastScanAt(u, b) = NoTime \/ DaysBetween(now, LastScanAt(u, b)) >= WeekDays)

\* check_weekly_scan_limit(user_id, brand_id)["can_scan"]
CanScan(u, b) ==
  IF LastScanAt(u, b) = NoTime THEN TRUE
  ELSE DaysBetween(now, LastScanAt(u, b)) >= WeekDays

\* check_weekly_scan_limit(user_id, brand_id)["days_remaining"]
DaysRemaining(u, b) ==
  IF CanScan(u, b) THEN 0 ELSE WeekDays - DaysBetween(now, LastScanAt(u, b))

\* a quota test that also refuses the scan that exactly uses up the plan
Insufficient_AtLimit(used, cost, limit) == used + cost >= limit

\* the quota test of run_scan, on the user document read by get_current_user
Insufficient(used, cost, limit) == used + cost > limit

\* length of the plan of generate_realistic_queries_with_gpt: the fallback
\* list when the provider is absent or gave fewer than 15 usable lines,
\* else the first 25 usable lines
PlanLen(usable) ==
  IF ~configured THEN FallbackLen
  ELSE IF usable < MinUsable THEN FallbackLen
  ELSE IF usable < PlanCap THEN usable ELSE PlanCap

\* the plan as a list of query ids in generation order
Plan(n) == [k \in 1..n |-> k]

\* the places in the fallback list of the templates that name a competitor
\* of the brand: the second pain point and the five comparison queries
FallbackWithCompetitor == {2, 11, 12, 13, 14, 15}

\* all_queries[:scans_cost]
Truncate(q, c) == IF Len(q) <= c THEN q ELSE SubSeq(q, 1, c)

\* generate_mock_scan_result(query, ...); derived_empty tells whether the
\* lists derived from the answer (competitors, features, audience, use
\* cases) are all empty; call records what the provider did
MockResult(q, outcome) ==
  [query |-> q, brand_mentioned |-> TRUE, derived_empty |-> FALSE,
   error |-> "", call |-> outcome]

\* the dict of the outer except clause of run_enhanced_chatgpt_scan
ErrorResult(q, outcome) ==
  [query |-> q, brand_mentioned |-> FALSE, derived_empty |-> TRUE,
   error |-> "exception", call |-> outcome]

\* the dict built from the provider's answer; the analysis of the answer is
\* reduced to whether it names the brand
AnalysedResult(q, outcome) ==
  [query |-> q, brand_mentioned |-> (outcome = "mention"),
   derived_empty |-> (outcome # "mention"), error |-> "", call |-> outcome]

\* the dict run_enhanced_chatgpt_scan returns for one query: the mock result
\* when the provider is absent or its call raises, the error dict when the
\* reply cannot be processed, else the analysed answer
QueryResult(q, outcome) ==
  IF ~configured THEN MockResult(q, "absent")
  ELSE IF outcome = "api_error" THEN MockResult(q, outcome)
  ELSE IF outcome = "bad_reply" THEN ErrorResult(q, outcome)
  ELSE AnalysedResult(q, outcome)

RECURSIVE Mentioned(_)
\* sum(1 for result in scan_results if result.get("brand_mentioned", False))
Mentioned(rs) ==
  IF rs = <<>> THEN 0
  ELSE (IF rs[Len(rs)].brand_mentioned THEN 1 ELSE 0) + Mentioned(SubSeq(rs, 1, Len(rs) - 1))

\* the ratio of mentioned to total queries, not scaled to a percentage
VisibilityScore_Unscaled(rs) ==
  IF Len(rs) > 0 THEN Mentioned(rs) \div Len(rs) ELSE 0

\* (mentioned_queries / total_queries) * 100 if total_queries > 0 else 0,
\* its integer part
VisibilityScore(rs) ==
  IF Len(rs) > 0 THEN (Mentioned(rs) * 100) \div Len(rs) ELSE 0

(* ------------------------------ Init ----------------------------------- *)
IdleReq ==
  [pc |-> "idle", user |-> "u1", brand |-> "A", scan_type |-> "quick",
   cu_used |-> 0, cu_limit |-> 0, scans_cost |-> 0, scan_id |-> 0,
   queries |-> <<>>, scan_results |-> <<>>, error |-> "", resp |-> 0,
   at |-> NoTime]

Init ==
  /\ configured \in BOOLEAN
  /\ now = 0
  /\ \E n \in InitUsed :
       users = [u \in Users |-> [scans_used |-> IF u = "u1" THEN n ELSE 0,
                                 scans_limit |-> DefaultLimit]]
  /\ brands = [b \in Brands |-> [user_id |-> "u1", last_scanned |-> NoTime,
                                 visibility_score |-> 0]]
  /\ scan_progress = [id \in ScanIds |-> NoDoc]
  /\ scans = <<>>
  /\ rq = [r \in Reqs |-> IdleReq]
  /\ poll = NoPoll
  /\ odd = 0
  /\ source_db = NoSources
  /\ fx = NoFx

(* ----------------------------- run_scan -------------------------------- *)
Allocated == {id \in ScanIds : scan_progress[id] # NoDoc}
Quiet == \A r \in DOMAIN rq : rq[r].pc \in {"idle", "done"}

\* the request ends: its locals are dropped, its response is kept
Respond(r, code) ==
  rq' = [rq EXCEPT ![r] = [IdleReq EXCEPT !.pc = "done", !.resp = code,
                             !.at = now,
                             !.user = rq[r].user, !.brand = rq[r].brand,
                             !.scan_type = rq[r].scan_type,
                             !.scans_cost = rq[r].scans_cost,
                             !.scan_id = rq[r].scan_id]]

\* Depends(get_current_user): the user document is read when the request
\* arrives
GetCurrentUser(r, u, b, t) ==
  /\ rq[r].pc \in {"idle", "done"}
  /\ rq' = [rq EXCEPT ![r] = [IdleReq EXCEPT !.pc = "admit", !.user = u,
                                !.brand = b, !.scan_type = t,
                                !.cu_used = users[u].scans_used,
                                !.cu_limit = users[u].scans_limit]]
  /\ poll' = NoPoll
  /\ UNCHANGED <<source_db, fx>>
  /\ UNCHANGED <<configured, now, users, brands, scan_progress, scans, odd>>

\* brand lookup, weekly limit, quota
Admission(r) ==
  /\ rq[r].pc = "admit"
  /\ LET u == rq[r].user
         b == rq[r].brand
         cost == ScansNeeded(rq[r].scan_type)
     IN IF brands[b].user_id # u THEN Respond(r, 404)
        ELSE IF ~CanScan(u, b) THEN Respond(r, 429)
        ELSE IF Insufficient(rq[r].cu_used, cost, rq[r].cu_limit) THEN Respond(r, 400)
        ELSE rq' = [rq EXCEPT ![r].pc = "start", ![r].scans_cost = cost]
  /\ poll' = NoPoll
  /\ UNCHANGED <<source_db, fx>>
  /\ UNCHANGED <<configured, now, users, brands, scan_progress, scans, odd>>

\* db.scan_progress.insert_one(progress_data), outside the try block
InsertProgress(r, ok) ==
  /\ rq[r].pc = "start"
  /\ Allocated # ScanIds
  /\ LET id == CHOOSE id \in ScanIds : id \notin Allocated /\ \A j \in ScanIds \ Allocated : id <= j
     IN IF ok
        THEN /\ scan_progress' = [scan_progress EXCEPT ![id] =
                  [status |-> "running", user_id |-> rq[r].user,
                   brand_id |-> rq[r].brand, scan_type |-> rq[r].scan_type,
                   progress |-> 0, total_queries |-> rq[r].scans_cost,
                   current_query |-> 0, results |-> <<>>, error |-> "",
                   started_at |-> now, completed_at |-> NoTime, failed_at |-> NoTime]]
             /\ rq' = [rq EXCEPT ![r].pc = "generate", ![r].scan_id = id]
        ELSE /\ Respond(r, 500)
             /\ UNCHANGED scan_progress
  /\ poll' = NoPoll
  /\ UNCHANGED <<source_db, fx>>
  /\ UNCHANGED <<configured, now, users, brands, scans, odd>>

\* generate_realistic_queries_with_gpt(...)[:scans_cost]
Generate(r, usable) ==
  /\ rq[r].pc = "generate"
  /\ rq' = [rq EXCEPT ![r].pc = "update",
                      ![r].queries = Truncate(Plan(PlanLen(usable)), rq[r].scans_cost)]
  /\ poll' = NoPoll
  /\ UNCHANGED <<source_db, fx>>
  /\ UNCHANGED <<configured, now, users, brands, scan_progress, scans, odd>>

\* loop head: update_one progress = i + 1, current_query = query
UpdateProgress(r, ok) ==
  /\ rq[r].pc = "update"
  /\ LET i == Len(rq[r].scan_results)
         id == rq[r].scan_id
     IN IF ok
        THEN /\ scan_progress' = [scan_progress EXCEPT ![id].progress = i + 1,
                                    ![id].current_query = rq[r].queries[i + 1]]
             /\ rq' = [rq EXCEPT ![r].pc = "call"]
        ELSE /\ rq' = [rq EXCEPT ![r].pc = "except", ![r].error = "update_progress"]
             /\ UNCHANGED scan_progress
  /\ poll' = NoPoll
  /\ UNCHANGED <<source_db, fx>>
  /\ UNCHANGED <<configured, now, users, brands, scans, odd>>

\* a loop that puts each new result at the head of the list
RunQuery_Prepend(r, outcome) ==
  /\ rq[r].pc = "call"
  /\ IF configured /\ outcome # "mention"
     THEN odd < MaxOdd /\ odd' = odd + 1
     ELSE outcome = "mention" /\ odd' = odd
  /\ LET i == Len(rq[r].scan_results)
         rs == <<QueryResult(rq[r].queries[i + 1], outcome)>> \o rq[r].scan_results
     IN rq' = [rq EXCEPT ![r].scan_results = rs,
                         ![r].pc = IF Len(rs) < Len(rq[r].queries) THEN "update" ELSE "complete"]
  /\ poll' = NoPoll
  /\ UNCHANGED <<source_db, fx>>
  /\ UNCHANGED <<configured, now, users, brands, scan_progress, scans>>

\* result = await run_enhanced_chatgpt_scan(query, ...); scan_results.append(result)
RunQuery(r, outcome) ==
  /\ rq[r].pc = "call"
  /\ IF configured /\ outcome # "mention"
     THEN odd < MaxOdd /\ odd' = odd + 1
     ELSE outcome = "mention" /\ odd' = odd
  /\ LET i == Len(rq[r].scan_results)
         rs == Append(rq[r].scan_results, QueryResult(rq[r].queries[i + 1], outcome))
     IN rq' = [rq EXCEPT ![r].scan_results = rs,
                         ![r].pc = IF Len(rs) < Len(rq[r].queries) THEN "update" ELSE "complete"]
  /\ poll' = NoPoll
  /\ UNCHANGED <<source_db, fx>>
  /\ UNCHANGED <<configured, now, users, brands, scan_progress, scans>>

\* update_one status = completed, progress = len(queries)
CompleteProgress(r, ok) ==
  /\ rq[r].pc = "complete"
  /\ LET id == rq[r].scan_id
     IN IF ok
        THEN /\ scan_progress' = [scan_progress EXCEPT ![id].status = "completed",
                                    ![id].progress = Len(rq[r].queries),
                                    ![id].completed_at = now]
             /\ rq' = [rq EXCEPT ![r].pc = "store"]
        ELSE /\ rq' = [rq EXCEPT ![r].pc = "except", ![r].error = "complete_progress"]
             /\ UNCHANGED scan_progress
  /\ poll' = NoPoll
  /\ UNCHANGED <<source_db, fx>>
  /\ UNCHANGED <<configured, now, users, brands, scans, odd>>

\* the three analyses, the visibility metrics and db.scans.insert_one(scan_data)
StoreScan(r, ok) ==
  /\ rq[r].pc = "store"
  /\ IF ok
     THEN /\ scans' = Append(scans,
                [of |-> rq[r].scan_id, user_id |-> rq[r].user, brand_id |-> rq[r].brand,
                 scan_type |-> rq[r].scan_type, queries |-> rq[r].queries,
                 results |-> rq[r].scan_results,
                 visibility_score |-> VisibilityScore(rq[r].scan_results),
                 mentioned_queries |-> Mentioned(rq[r].scan_results),
                 total_queries |-> Len(rq[r].scan_results),
                 scans_used |-> rq[r].scans_cost, created_at |-> now])
          /\ rq' = [rq EXCEPT ![r].pc = "count"]
     ELSE /\ rq' = [rq EXCEPT ![r].pc = "except", ![r].error = "insert_scan"]
          /\ UNCHANGED scans
  /\ poll' = NoPoll
  /\ UNCHANGED <<source_db, fx>>
  /\ UNCHANGED <<configured, now, users, brands, scan_progress, odd>>

\* a usage update that counts the queries executed, as the earlier revision did
CountUsage_ByQueries(r, ok) ==
  /\ rq[r].pc = "count"
  /\ IF ok
     THEN /\ users' = [users EXCEPT ![rq[r].user].scans_used = @ + Len(rq[r].queries)]
          /\ Respond(r, 200)
     ELSE /\ rq' = [rq EXCEPT ![r].pc = "except", ![r].error = "update_user"]
          /\ UNCHANGED users
  /\ poll' = NoPoll
  /\ UNCHANGED <<source_db, fx>>
  /\ UNCHANGED <<configured, now, brands, scan_progress, scans, odd>>

\* db.users.update_one({"$inc": {"scans_used": scans_cost}}) and the return
CountUsage(r, ok) ==
  /\ rq[r].pc = "count"
  /\ IF ok
     THEN /\ users' = [users EXCEPT ![rq[r].user].scans_used = @ + rq[r].scans_cost]
          /\ Respond(r, 200)
     ELSE /\ rq' = [rq EXCEPT ![r].pc = "except", ![r].error = "update_user"]
          /\ UNCHANGED users
  /\ poll' = NoPoll
  /\ UNCHANGED <<source_db, fx>>
  /\ UNCHANGED <<configured, now, brands, scan_progress, scans, odd>>

\* except Exception: update_one status = failed, error; raise HTTPException(500)
MarkFailed(r, ok) ==
  /\ rq[r].pc = "except"
  /\ LET id == rq[r].scan_id
     IN IF ok
        THEN scan_progress' = [scan_progress EXCEPT ![id].status = "failed",
                                 ![id].error = rq[r].error, ![id].failed_at = now]
        ELSE UNCHANGED scan_progress
  /\ Respond(r, 500)
  /\ poll' = NoPoll
  /\ UNCHANGED <<source_db, fx>>
  /\ UNCHANGED <<configured, now, users, brands, scans, odd>>

(* ------------------------- get_scan_progress --------------------------- *)
\* a lookup by scan id alone
GetScanProgress_AnyUser(u, id) ==
  /\ poll' = IF scan_progress[id] # NoDoc
             THEN [code |-> 200, caller |-> u, scan_id |-> id,
                   status |-> scan_progress[id].status,
                   progress |-> scan_progress[id].progress,
                   total_queries |-> scan_progress[id].total_queries,
                   error |-> scan_progress[id].error]
             ELSE [code |-> 404, caller |-> u, scan_id |-> id, status |-> "none",
                   progress |-> 0, total_queries |-> 0, error |-> ""]
  /\ UNCHANGED <<configured, now, users, brands, scan_progress, scans, rq, odd>>
  /\ UNCHANGED <<source_db, fx>>

\* find_one({"_id": scan_id, "user_id": current_user["_id"]}); the response
\* keeps who asked
GetScanProgress(u, id) ==
  /\ poll' = IF scan_progress[id] # NoDoc /\ scan_progress[id].user_id = u
             THEN [code |-> 200, caller |-> u, scan_id |-> id,
                   status |-> scan_progress[id].status,
                   progress |-> scan_progress[id].progress,
                   total_queries |-> scan_progress[id].total_queries,
                   error |-> scan_progress[id].error]
             ELSE [code |-> 404, caller |-> u, scan_id |-> id, status |-> "none",
                   progress |-> 0, total_queries |-> 0, error |-> ""]
  /\ UNCHANGED <<configured, now, users, brands, scan_progress, scans, rq, odd>>
  /\ UNCHANGED <<source_db, fx>>

(* ------------------- get_source_domains / _articles -------------------- *)
\* "total" of get_source_domains(brand_id): the distinct domain names over
\* the user's per-scan domain records of the brand
SourceDomainsTotal(u, b) ==
  Cardinality(UNION {source_db.domains[k].domains :
                       k \in {j \in 1..Len(source_db.domains) :
                                /\ source_db.domains[j].user_id = u
                                /\ source_db.domains[j].brand_id = b}})

\* "total" of get_source_articles(brand_id): the distinct urls over the
\* user's per-scan article records of the brand
SourceArticlesTotal(u, b) ==
  Cardinality(UNION {source_db.articles[k].articles :
                       k \in {j \in 1..Len(source_db.articles) :
                                /\ source_db.articles[j].user_id = u
                                /\ source_db.articles[j].brand_id = b}})

(* ------------------------------ clock ---------------------------------- *)
\* the clock is read at 0 until a first record carries a timestamp
Tick(d) ==
  /\ Quiet
  /\ scans # <<>>
  /\ now + d <= MaxTime
  /\ now' = now + d
  /\ poll' = NoPoll
  /\ UNCHANGED <<source_db, fx>>
  /\ UNCHANGED <<configured, users, brands, scan_progress, scans, rq, odd>>

(* --------------------------- specification ----------------------------- *)
\* One scan, of brand A, followed step by step: every write to the store
\* may raise, the LLM answers in every way, a reader polls between any two
\* steps.
Next ==
  \/ \E r \in Reqs, u \in Users, b \in {"A"}, t \in ScanTypes :
        Allocated = {} /\ GetCurrentUser(r, u, b, t)
  \/ \E r \in Reqs : Admission(r)
  \/ \E r \in Reqs, ok \in BOOLEAN : InsertProgress(r, ok)
  \/ \E r \in Reqs, n \in UsableLines : Generate(r, n)
  \/ \E r \in Reqs, ok \in BOOLEAN : UpdateProgress(r, ok)
  \/ \E r \in Reqs, o \in LLMOutcomes : RunQuery(r, o)
  \/ \E r \in Reqs, ok \in BOOLEAN : CompleteProgress(r, ok)
  \/ \E r \in Reqs, ok \in BOOLEAN : StoreScan(r, ok)
  \/ \E r \in Reqs, ok \in BOOLEAN : CountUsage(r, ok)
  \/ \E r \in Reqs, ok \in BOOLEAN : MarkFailed(r, ok)
  \/ \E u \in Users, id \in PollIds : GetScanProgress(u, id)

Spec == Init /\ [][Next]_vars

\* Scans of two brands over eight days and a half: the store does not fail
\* and the provider is not configured (the mock results are used).
NextWeek ==
  \/ \E r \in Reqs, u \in Users, b \in Brands, t \in ScanTypes :
        Cardinality(Allocated) < MaxScans /\ GetCurrentUser(r, u, b, t)
  \/ \E r \in Reqs : Admission(r)
  \/ \E r \in Reqs : InsertProgress(r, TRUE)
  \/ \E r \in Reqs, n \in UsableLines : Generate(r, n)
  \/ \E r \in Reqs : UpdateProgress(r, TRUE)
  \/ \E r \in Reqs : RunQuery(r, "mention")
  \/ \E r \in Reqs : CompleteProgress(r, TRUE)
  \/ \E r \in Reqs : StoreScan(r, TRUE)
  \/ \E r \in Reqs : CountUsage(r, TRUE)
  \/ \E d \in TickSteps : Tick(d)

InitWeek == Init /\ ~configured

SpecWeek == InitWeek /\ [][NextWeek]_vars

\* Two requests of one user in flight at once: the event loop interleaves
\* the coroutines at every await. The store does not fail and the provider
\* is not configured.
InFlight == {r \in DOMAIN rq : rq[r].pc \in {"admit", "start"}}

NextConc ==
  \/ \E r \in ConcReqs, b \in Brands, t \in ConcTypes :
        /\ Cardinality(Allocated) + Cardinality(InFlight) < MaxScans
        /\ GetCurrentUser(r, "u1", b, t)
  \/ \E r \in ConcReqs : Admission(r)
  \/ \E r \in ConcReqs : InsertProgress(r, TRUE)
  \/ \E r \in ConcReqs, n \in UsableLines : Generate(r, n)
  \/ \E r \in ConcReqs : UpdateProgress(r, TRUE)
  \/ \E r \in ConcReqs : RunQuery(r, "mention")
  \/ \E r \in ConcReqs : CompleteProgress(r, TRUE)
  \/ \E r \in ConcReqs : StoreScan(r, TRUE)
  \/ \E r \in ConcReqs : CountUsage(r, TRUE)
  \/ \E d \in TickSteps : Tick(d)

InitConc ==
  /\ configured = FALSE
  /\ now = 0
  /\ \E used \in ConcUsed :
       users = [u \in Users |-> [scans_used |-> IF u = "u1" THEN used ELSE 0,
                                 scans_limit |-> DefaultLimit]]
  /\ brands = [b \in Brands |-> [user_id |-> "u1", last_scanned |-> NoTime,
                                 visibility_score |-> 0]]
  /\ scan_progress = [id \in ScanIds |-> NoDoc]
  /\ scans = <<>>
  /\ rq = [r \in ConcReqs |-> IdleReq]
  /\ poll = NoPoll
  /\ odd = 0
  /\ source_db = NoSources
  /\ fx = NoFx

SpecConc == InitConc /\ [][NextConc]_vars

(* --------------------------- pure functions ---------------------------- *)
\* the store while a pure function is applied on its own: no request, no
\* record
AtRest ==
  /\ configured = FALSE
  /\ now = 0
  /\ users = [u \in Users |-> [scans_used |-> 0, scans_limit |-> DefaultLimit]]
  /\ brands = [b \in Brands |-> [user_id |-> "u1", last_scanned |-> NoTime,
                                 visibility_score |-> 0]]
  /\ scan_progress = [id \in ScanIds |-> NoDoc]
  /\ scans = <<>>
  /\ rq = [r \in Reqs |-> IdleReq]
  /\ poll = NoPoll
  /\ odd = 0
  /\ source_db = NoSources

(* ------------------ generate_realistic_queries_with_gpt ---------------- *)
\* A line of the reply: marker tells whether it starts with a digit, "-" or
\* a bullet, long whether what follows the numbering has more than 10
\* characters, qmark whether it contains a question mark; text names the
\* words of the line, the question mark left aside.
\* The replies: n lines with pairwise different words, except that the last
\* line repeats the words of line dup (0: no repeat); the even lines carry a
\* question mark; line 1 is a heading without marker when head holds; line
\* 2 is a short line when short holds.
Reply(n, dup, head, short) ==
  [k \in 1..n |-> [marker |-> ~(head /\ k = 1),
                   long |-> ~(short /\ k = 2),
                   text |-> IF k = n /\ dup > 0 THEN dup ELSE k,
                   qmark |-> (k % 2 = 0)]]

Replies ==
  {Reply(n, dup, head, short) :
     n \in 0..MaxLines, dup \in 0..MaxLines, head \in BOOLEAN, short \in BOOLEAN}

\* query = line.split(...)...strip(); a "?" is added when there is none
ParseLine(l) ==
  [src |-> "reply", text |-> l.text,
   qmark |-> IF l.long /\ ~l.qmark THEN TRUE ELSE l.qmark]

RECURSIVE ParseQueries(_)
\* the loop over the lines of the reply: the lines with a marker and a long
\* query, in order
ParseQueries(lines) ==
  IF lines = <<>> THEN <<>>
  ELSE LET l == lines[1]
           rest == ParseQueries(SubSeq(lines, 2, Len(lines)))
       IN IF l.marker /\ l.long THEN <<ParseLine(l)>> \o rest ELSE rest

\* generate_realistic_fallback_queries: 25 templates with pairwise different
\* fixed words, none with a question mark
FallbackQueries ==
  [k \in 1..FallbackLen |-> [src |-> "fallback", text |-> k, qmark |-> FALSE]]

\* generate_realistic_queries_with_gpt: conf tells whether the provider is
\* configured, raises whether its call raises
GenerateQueries(conf, raises, reply) ==
  IF ~conf \/ raises THEN FallbackQueries
  ELSE LET queries == ParseQueries(reply)
       IN IF Len(queries) < MinUsable THEN FallbackQueries
          ELSE Truncate(queries, PlanCap)

InitPlan ==
  /\ AtRest
  /\ \E conf \in BOOLEAN, raises \in BOOLEAN, reply \in Replies :
       fx = [op |-> "generate", conf |-> conf, raises |-> raises,
             reply |-> reply, done |-> FALSE, out |-> <<>>]

ApplyGenerate ==
  /\ fx.op = "generate" /\ ~fx.done
  /\ fx' = [fx EXCEPT !.done = TRUE,
                      !.out = GenerateQueries(fx.conf, fx.raises, fx.reply)]
  /\ UNCHANGED dbvars

NextPlan == ApplyGenerate

SpecPlan == InitPlan /\ [][NextPlan]_vars

(* ------------------------- visibility metrics -------------------------- *)
\* result lists of t queries, t up to the longest plan, of which m mention
\* the brand: the mentions first, or the mentions last
ResultList(t, m, first) ==
  [k \in 1..t |->
     AnalysedResult(k, IF (first /\ k <= m) \/ (~first /\ k > t - m)
                       THEN "mention" ELSE "nomention")]

ResultLists ==
  {ResultList(t, m, first) : t \in 0..PlanCap, m \in 0..PlanCap, first \in BOOLEAN}

\* total_queries, mentioned_queries and visibility_score of run_scan
Metrics(rs) ==
  [total_queries |-> Len(rs), mentioned_queries |-> Mentioned(rs),
   visibility_score |-> VisibilityScore(rs)]

InitScore ==
  /\ AtRest
  /\ \E rs \in ResultLists : fx = [op |-> "score", results |-> rs, out |-> <<>>]

\* the metrics are computed, and computed again, on the same list
ApplyScore ==
  /\ fx.op = "score" /\ Len(fx.out) < 2
  /\ fx' = [fx EXCEPT !.out = Append(@, Metrics(fx.results))]
  /\ UNCHANGED dbvars

NextScore == ApplyScore

SpecScore == InitScore /\ [][NextScore]_vars

(* ------------------------- source_extraction --------------------------- *)
\* base_domains of generate_brand_specific_domains, in dict order: reviews,
\* content, community, news
BasePool ==
  <<"g2.com", "capterra.com", "trustpilot.com", "softwareadvice.com",
    "medium.com", "techcrunch.com", "producthunt.com", "hackernoon.com",
    "reddit.com", "quora.com", "stackoverflow.com", "linkedin.com",
    "venturebeat.com", "forbes.com", "businessinsider.com", "inc.com">>

\* the industries a brand is in, by the word the industry name contains
Industries == {"saas", "other"}

\* base_domains["industry"]
IndustryPool(industry) ==
  CASE industry = "ecommerce" -> <<"shopify.com", "bigcommerce.com", "woocommerce.com">>
    [] industry = "finance" -> <<"expensify.com", "concur.com", "ramp.com">>
    [] industry = "saas" -> <<"saasworthy.com", "getapp.com", "alternativeto.net">>
    [] OTHER -> <<>>

\* generate_brand_specific_articles: the five urls built from the brand and
\* industry slugs
FallbackArticles ==
  <<"https://www.capterra.com/INDUSTRY/reviews/review-BRAND",
    "https://g2.com/products/BRAND/reviews",
    "https://medium.com/@techreview/best-INDUSTRY-tools-2024-BRAND",
    "https://www.forbes.com/sites/forbestechcouncil/INDUSTRY-solutions-comparison",
    "https://techcrunch.com/2024/01/15/BRAND-INDUSTRY-startup-funding">>

\* What the regular expressions find in a response, in text order: the
\* domain names with the description of their DOMAIN: line ("" without
\* one), and the urls with the title of their ARTICLE: line.
EmptyResponse == [domains |-> <<>>, urls |-> <<>>]

Responses ==
  { EmptyResponse,
    \* names a review site and links to the brand's page on it
    [domains |-> <<[name |-> "g2.com", desc |-> ""]>>,
     urls |-> <<[url |-> "https://g2.com/products/BRAND/reviews", title |-> ""]>>],
    \* a marked section, one domain named twice
    [domains |-> <<[name |-> "acme.com", desc |-> "official site"],
                   [name |-> "reddit.com", desc |-> ""],
                   [name |-> "acme.com", desc |-> "official site"]>>,
     urls |-> <<[url |-> "https://acme.com/blog/launch", title |-> "Launch post"]>>],
    \* six domains and three links
    [domains |-> <<[name |-> "acme.com", desc |-> ""],
                   [name |-> "reviewhub.com", desc |-> ""],
                   [name |-> "technews.com", desc |-> ""],
                   [name |-> "g2.com", desc |-> ""],
                   [name |-> "capterra.com", desc |-> ""],
                   [name |-> "quora.com", desc |-> ""]>>,
     urls |-> <<[url |-> "https://acme.com/a", title |-> ""],
                [url |-> "https://reviewhub.com/b", title |-> ""],
                [url |-> "https://technews.com/c", title |-> ""]>>] }

\* the values the random module yields to the records of rank 0..4: low end
\* of the range, middle, high end, in patterns a b a b a
Levels == {"lo", "mid", "hi"}
DrawPatterns == {[i \in 0..4 |-> IF i % 2 = 0 THEN a ELSE b] : a, b \in Levels}

\* random.randint(a, b)
RandInt(level, a, b) ==
  CASE level = "lo" -> a
    [] level = "hi" -> b
    [] OTHER -> (a + b) \div 2

Range(q) == {q[k] : k \in 1..Len(q)}
Reverse(q) == [k \in 1..Len(q) |-> q[Len(q) + 1 - k]]
Rotate(q, n) == [k \in 1..Len(q) |-> q[((k + n - 1) % Len(q)) + 1]]

\* random.shuffle(all_domains): the list as it is, reversed, or rotated
Shuffle(q, level) ==
  CASE level = "lo" -> q
    [] level = "hi" -> Reverse(q)
    [] OTHER -> Rotate(q, Len(q) \div 2)

\* q[:5]
Top5(q) == IF Len(q) <= 5 THEN q ELSE SubSeq(q, 1, 5)

RECURSIVE Distinct(_)
\* the elements of q without repeats
Distinct(q) ==
  IF q = <<>> THEN <<>>
  ELSE LET rest == Distinct(SubSeq(q, 1, Len(q) - 1))
           x == q[Len(q)]
       IN IF \E k \in 1..Len(rest) : rest[k] = x THEN rest ELSE Append(rest, x)

\* list(found_domains), list(found_articles): the elements of a set in an
\* order the hash of the strings decides
ListOrders(q) ==
  IF q = <<>> THEN {<<>>} ELSE {Rotate(Distinct(q), n) : n \in 0..(Len(Distinct(q)) - 1)}

Min(x, y) == IF x <= y THEN x ELSE y
Max(x, y) == IF x >= y THEN x ELSE y

\* the category the keywords in a domain name give it
CategoryOf(name) ==
  IF name \in {"reddit.com"} THEN "Social Media"
  ELSE IF name \in {"reviewhub.com"} THEN "Reviews"
  ELSE IF name \in {"technews.com"} THEN "Content"
  ELSE "Business"

\* domain_descriptions.get(domain, f"Relevant {category.lower()} platform")
DescriptionOf(resp, name) ==
  IF \E k \in 1..Len(resp.domains) :
       resp.domains[k].name = name /\ resp.domains[k].desc # ""
  THEN LET k == CHOOSE k \in 1..Len(resp.domains) :
                  resp.domains[k].name = name /\ resp.domains[k].desc # ""
       IN resp.domains[k].desc
  ELSE "Relevant " \o CategoryOf(name) \o " platform"

\* generate_article_title(url, ...), by the site name the url contains
TitleOf(url) ==
  IF url = FallbackArticles[1] THEN "Reviews, Ratings & Features 2024"
  ELSE IF url = FallbackArticles[2] THEN "Reviews and Ratings | G2"
  ELSE IF url = FallbackArticles[3] THEN "Best Tools in 2024: Complete Guide"
  ELSE IF url = FallbackArticles[4] THEN "Top Solutions for Modern Businesses"
  ELSE IF url = FallbackArticles[5] THEN "Raises Series A"
  ELSE "Solution Review"

\* article_titles.get(url, generate_article_title(url, ...))
ArticleTitle(resp, url) ==
  IF \E k \in 1..Len(resp.urls) : resp.urls[k].url = url /\ resp.urls[k].title # ""
  THEN LET k == CHOOSE k \in 1..Len(resp.urls) :
                  resp.urls[k].url = url /\ resp.urls[k].title # ""
       IN resp.urls[k].title
  ELSE TitleOf(url)

\* the names, the urls a response cites, in text order
NamesIn(resp) == [k \in 1..Len(resp.domains) |-> resp.domains[k].name]
UrlsIn(resp) == [k \in 1..Len(resp.urls) |-> resp.urls[k].url]

\* extract_source_domains_from_response: found is list(found_domains),
\* draws the values of the random module
ExtractDomains(resp, industry, found, draws) ==
  LET domains_list == IF found = <<>>
                      THEN Top5(Shuffle(BasePool \o IndustryPool(industry), draws[0]))
                      ELSE found
      top == Top5(domains_list)
  IN [k \in 1..Len(top) |->
        [domain |-> top[k],
         impact |-> Min(100, Max(20, 95 - ((k - 1) * 10) + RandInt(draws[k - 1], -5, 5))),
         mentions |-> RandInt(draws[k - 1], 1, 8),
         category |-> CategoryOf(top[k]),
         description |-> DescriptionOf(resp, top[k])]]

\* for fallback_url in fallback_articles: if fallback_url not in articles_list
NotListed(q, listed) ==
  SelectSeq(q, LAMBDA x : ~\E k \in 1..Len(listed) : listed[k] = x)

\* extract_source_articles_from_response
ExtractArticles(resp, found, draws) ==
  LET with_fallback == IF Len(found) < 3
                       THEN found \o NotListed(FallbackArticles, found)
                       ELSE found
      articles_list == IF Len(with_fallback) < 5
                       THEN with_fallback \o FallbackArticles
                       ELSE with_fallback
      top == Top5(articles_list)
  IN [k \in 1..Len(top) |->
        [url |-> top[k],
         title |-> ArticleTitle(resp, top[k]),
         impact |-> Min(100, Max(15, 90 - ((k - 1) * 12) + RandInt(draws[k - 1], -3, 3))),
         queries |-> RandInt(draws[k - 1], 1, 6),
         relevance |-> Max(70, 95 - ((k - 1) * 5))]]

InitExtract ==
  /\ AtRest
  /\ fx = [op |-> "extract", runs |-> <<>>]

\* the extractor is applied to a response, and to a second one
ApplyExtract ==
  /\ fx.op = "extract" /\ Len(fx.runs) < 2
  /\ \E resp \in Responses, industry \in Industries, draws \in DrawPatterns :
       \E found_domains \in ListOrders(NamesIn(resp)),
          found_articles \in ListOrders(UrlsIn(resp)) :
         fx' = [fx EXCEPT !.runs = Append(@,
                  [response |-> resp, industry |-> industry,
                   source_domains |-> ExtractDomains(resp, industry, found_domains, draws),
                   source_articles |-> ExtractArticles(resp, found_articles, draws)])]
  /\ UNCHANGED dbvars

NextExtract == ApplyExtract

SpecExtract == InitExtract /\ [][NextExtract]_vars

(* ----------------------- extract_enhanced_insights --------------------- *)
\* A response is a list of lines and a line a list of tokens; the token
\* "BRAND" is an occurrence of the brand name. The lines:
LineTemplates ==
  { <<>>,
    <<"1.", "BRAND", "excellent", "automation", "2.", "Zeta", "good", "limited">>,
    <<"Zeta", "good">>,
    <<"BRAND", "runner-up">>,
    <<"Yeta", "BRAND", "top choice">>,
    <<"2.", "BRAND", "limited">>,
    <<"BRAND", "worth mentioning", "small business">>,
    <<"Zeta", "Yeta", "BRAND", "also consider">>,
    <<"great", "small business">> }

\* the responses: one line, or two
AnalyzeResponses ==
  {<<l>> : l \in LineTemplates} \cup {<<l, m>> : l, m \in LineTemplates}

\* the brand names: a word, the empty string, a name made of punctuation
BrandNames == {"Acme", "", "("}
\* the competitors of the brand profile, in profile order
Competitors == <<"Zeta", "Yeta">>

\* whether re.finditer(brand_lower, ...) accepts the name as a pattern
ValidPattern(brand) == brand \notin {"("}

LineHas(line, tok) == \E k \in 1..Len(line) : line[k] = tok

\* brand_lower in line.lower(): the empty string is in every string
LineHasBrand(line, brand) == brand = "" \/ LineHas(line, "BRAND")

\* brand_lower in response_lower
BrandMentioned(resp, brand) == \E n \in 1..Len(resp) : LineHasBrand(resp[n], brand)

\* line.strip().startswith(('1.', '1)', '#1')) ... ('5.', '5)', '#5'): the
\* number of the marker, 0 without one
MarkerOf(line) ==
  IF line = <<>> THEN 0
  ELSE CASE line[1] = "1." -> 1
         [] line[1] = "2." -> 2
         [] line[1] = "3." -> 3
         [] line[1] = "4." -> 4
         [] line[1] = "5." -> 5
         [] OTHER -> 0

\* the value of the ordinal phrase of a line, 0 without one
OrdinalOf(line) ==
  IF LineHas(line, "top choice") THEN 1
  ELSE IF LineHas(line, "runner-up") THEN 2
  ELSE IF LineHas(line, "also consider") THEN 3
  ELSE IF LineHas(line, "worth mentioning") THEN 4
  ELSE 0

RECURSIVE Flatten(_)
\* the tokens of a response, in text order
Flatten(resp) == IF resp = <<>> THEN <<>> ELSE resp[1] \o Flatten(Tail(resp))

\* preceding_text = response_lower[:response_lower.find(brand_lower)] and
\* the number of competitors in it
CompetitorMentionsBefore(resp, brand) ==
  LET toks == Flatten(resp)
      at == IF brand = "" THEN 1
            ELSE CHOOSE k \in 1..Len(toks) :
                   toks[k] = "BRAND" /\ \A j \in 1..(k - 1) : toks[j] # "BRAND"
  IN Cardinality({c \in 1..Len(Competitors) :
                    \E j \in 1..(at - 1) : toks[j] = Competitors[c]})

\* the words of positive_words, of negative_words a line contains
PositiveScore(line) ==
  Cardinality({w \in {"excellent", "great", "top choice"} : LineHas(line, w)})
NegativeScore(line) ==
  Cardinality({w \in {"limited"} : LineHas(line, w)})

\* the first line that contains the brand
BrandLine(resp, brand) ==
  resp[CHOOSE n \in 1..Len(resp) :
         LineHasBrand(resp[n], brand) /\ \A j \in 1..(n - 1) : ~LineHasBrand(resp[j], brand)]

\* ranking_position: the marker of the brand line; without a marker the
\* ordinal phrase is assigned but position_found stays False, and the count
\* of competitors before the brand then replaces it
RankingPosition(resp, brand) ==
  LET line == BrandLine(resp, brand)
      marker == MarkerOf(line)
      from_phrase == IF marker > 0 THEN marker ELSE OrdinalOf(line)
      before == CompetitorMentionsBefore(resp, brand)
  IN IF marker > 0 THEN from_phrase ELSE Min(before + 1, 5)

\* sentiment of the brand line
Sentiment(line) ==
  IF PositiveScore(line) > NegativeScore(line) THEN "positive"
  ELSE IF NegativeScore(line) > PositiveScore(line) THEN "negative"
  ELSE "neutral"

\* competitors_mentioned[:3]
CompetitorsMentioned(resp) ==
  SelectSeq(Competitors, LAMBDA c : \E n \in 1..Len(resp) : LineHas(resp[n], c))

\* target_audience: the audience terms of the response; for each of them
\* re.finditer(brand_lower, response_lower) is evaluated
AudienceTermsIn(resp) ==
  SelectSeq(<<"small business">>, LAMBDA t : \E n \in 1..Len(resp) : LineHas(resp[n], t))

\* extract_enhanced_insights(response, brand_name, competitors, keywords)
\* for a profile without keywords; raised tells that an exception left the
\* function; ranking_position 0 is None
ExtractEnhancedInsights(resp, brand) ==
  LET mentioned == BrandMentioned(resp, brand)
  IN IF mentioned /\ AudienceTermsIn(resp) # <<>> /\ ~ValidPattern(brand)
     THEN [raised |-> TRUE]
     ELSE [raised |-> FALSE,
           brand_mentioned |-> mentioned,
           ranking_position |-> IF mentioned THEN RankingPosition(resp, brand) ELSE 0,
           sentiment |-> IF mentioned THEN Sentiment(BrandLine(resp, brand)) ELSE "neutral",
           competitors_mentioned |-> CompetitorsMentioned(resp),
           key_features |-> <<>>,
           target_audience |-> IF mentioned THEN AudienceTermsIn(resp) ELSE <<>>,
           use_cases |-> <<>>]

InitAnalyze ==
  /\ AtRest
  /\ \E resp \in AnalyzeResponses, brand \in BrandNames :
       fx = [op |-> "analyze", response |-> resp, brand |-> brand,
             done |-> FALSE, out |-> [raised |-> FALSE]]

ApplyAnalyze ==
  /\ fx.op = "analyze" /\ ~fx.done
  /\ fx' = [fx EXCEPT !.done = TRUE,
                      !.out = ExtractEnhancedInsights(fx.response, fx.brand)]
  /\ UNCHANGED dbvars

NextAnalyze == ApplyAnalyze

SpecAnalyze == InitAnalyze /\ [][NextAnalyze]_vars

(* ------------------------- get_real_competitors ------------------------ *)
\* the competitors of the user's brand, in the order of the brand profile,
\* and the name of the brand
RankCompetitors == <<"Zeta", "Yeta", "Ramp">>
UserBrand == "Acme"
RankNames == Range(RankCompetitors) \cup {UserBrand}

\* x / y rounded to the nearest integer
Rounded(x, y) == (2 * x + y) \div (2 * y)

\* round(adjusted_visibility, 1), in tenths of a percent, of a name with m
\* mentions in t queries: the user's brand is scaled by 0.6 and capped at
\* 85, a major player scaled by 2.5 and capped at 95, the others unchanged;
\* all capped at 95
AdjustedVisibility(name, m, t) ==
  IF name = UserBrand THEN Min(Min(Rounded(600 * m, t), 850), 950)
  ELSE IF name \in {"Ramp"} THEN Min(Min(Rounded(2500 * m, t), 950), 950)
  ELSE Min(Rounded(1000 * m, t), 950)

RECURSIVE SortByScore(_)
\* list.sort(key=visibility_score, reverse=True): stable, descending
SortByScore(q) ==
  IF q = <<>> THEN <<>>
  ELSE LET rest == SortByScore(SubSeq(q, 1, Len(q) - 1))
           x == q[Len(q)]
           ahead == SelectSeq(rest, LAMBDA y : y.visibility_score >= x.visibility_score)
           behind == SelectSeq(rest, LAMBDA y : y.visibility_score < x.visibility_score)
       IN ahead \o <<x>> \o behind

\* the "competitors" table of get_real_competitors: enumerated is the order
\* of competitor_mentions (the competitors in the iteration order of the set
\* all_competitors, then the brand), mentions the mention count of each
\* name, t the number of QueryResults
CompetitorTable(enumerated, mentions, t) ==
  IF t = 0 THEN <<>>
  ELSE LET rows == [k \in 1..Len(enumerated) |->
                      [name |-> enumerated[k],
                       visibility_score |-> AdjustedVisibility(enumerated[k], mentions[enumerated[k]], t),
                       mentions |-> mentions[enumerated[k]],
                       total_queries |-> t,
                       is_user_brand |-> (enumerated[k] = UserBrand)]]
           sorted == SortByScore(rows)
       IN [k \in 1..Len(sorted) |->
             [name |-> sorted[k].name, visibility_score |-> sorted[k].visibility_score,
              mentions |-> sorted[k].mentions, total_queries |-> sorted[k].total_queries,
              is_user_brand |-> sorted[k].is_user_brand, rank |-> k]]

InitRank ==
  /\ AtRest
  /\ \E t \in 0..MaxCorpus :
       \E mentions \in [RankNames -> 0..t], all_competitors \in ListOrders(RankCompetitors) :
         fx = [op |-> "rank", all_competitors |-> all_competitors, mentions |-> mentions,
               total_queries |-> t, done |-> FALSE, out |-> <<>>]

ApplyRank ==
  /\ fx.op = "rank" /\ ~fx.done
  /\ fx' = [fx EXCEPT !.done = TRUE,
                      !.out = CompetitorTable(fx.all_competitors \o <<UserBrand>>,
                                              fx.mentions, fx.total_queries)]
  /\ UNCHANGED dbvars

NextRank == ApplyRank

SpecRank == InitRank /\ [][NextRank]_vars

(* -------------------- get_source_domains, the fold --------------------- *)
\* the "domains" lists of per-scan records, and the user of each record
DomainRecords ==
  { [user_id |-> "u1", domains |-> <<[domain |-> "g2.com", impact |-> 95, mentions |-> 3],
                                      [domain |-> "reddit.com", impact |-> 80, mentions |-> 2]>>],
    [user_id |-> "u1", domains |-> <<[domain |-> "reddit.com", impact |-> 90, mentions |-> 1],
                                      [domain |-> "acme.com", impact |-> 85, mentions |-> 4]>>],
    [user_id |-> "u1", domains |-> <<[domain |-> "acme.com", impact |-> 95, mentions |-> 1]>>],
    [user_id |-> "u1", domains |-> <<>>],
    [user_id |-> "u2", domains |-> <<[domain |-> "g2.com", impact |-> 50, mentions |-> 1]>>] }

\* a store of weekly scans over two years: one record more than find()
\* returns, each naming the same domain
LongStore ==
  [k \in 1..(FindLimit + 1) |->
     [user_id |-> "u1", domains |-> <<[domain |-> "g2.com", impact |-> 1, mentions |-> 1]>>]]

\* the stores, in insertion order, which is the order of scan_date
DomainStores ==
  {LongStore} \cup UNION {[1..n -> DomainRecords] : n \in 0..MaxRecords}

\* the page sizes asked for
PageLimits == {1, 2, 5}

\* find({"user_id": ...}).sort("scan_date", -1).to_list(length=100)
FindDomainRecords(store, u) ==
  LET mine == Reverse(SelectSeq(store, LAMBDA rec : rec.user_id = u))
  IN IF Len(mine) <= FindLimit THEN mine ELSE SubSeq(mine, 1, FindLimit)

RECURSIVE AggregateDomains(_, _)
\* the loop over the "domains" of one record after the other: agg is
\* domain_aggregation, in insertion order; an unknown name starts at zero
\* and every entry adds its impact, its mentions and one page
AggregateDomains(entries, agg) ==
  IF entries = <<>> THEN agg
  ELSE IF \E k \in 1..Len(agg) : agg[k].domain = entries[1].domain
  THEN LET e == entries[1]
           at == CHOOSE k \in 1..Len(agg) : agg[k].domain = e.domain
       IN AggregateDomains(Tail(entries),
            SubSeq(agg, 1, at - 1)
              \o <<[agg[at] EXCEPT !.impact = @ + e.impact,
                                   !.mentions = @ + e.mentions,
                                   !.pages = @ + 1]>>
              \o SubSeq(agg, at + 1, Len(agg)))
  ELSE AggregateDomains(Tail(entries),
         Append(agg, [domain |-> entries[1].domain, impact |-> entries[1].impact,
                      mentions |-> entries[1].mentions, pages |-> 1]))

RECURSIVE EntriesOf(_)
\* the entries of a list of records, record after record
EntriesOf(records) ==
  IF records = <<>> THEN <<>> ELSE records[1].domains \o EntriesOf(Tail(records))

RECURSIVE SortByImpact(_)
\* sorted(..., key=impact, reverse=True): stable, descending
SortByImpact(q) ==
  IF q = <<>> THEN <<>>
  ELSE LET rest == SortByImpact(SubSeq(q, 1, Len(q) - 1))
           x == q[Len(q)]
           ahead == SelectSeq(rest, LAMBDA y : y.impact >= x.impact)
           behind == SelectSeq(rest, LAMBDA y : y.impact < x.impact)
       IN ahead \o <<x>> \o behind

\* all_domains[start_idx:end_idx]
Slice(q, from, to) ==
  IF from >= Len(q) THEN <<>> ELSE SubSeq(q, from + 1, Min(to, Len(q)))

\* get_source_domains(page, limit) of user u on a store
GetSourceDomains(store, u, page, limit) ==
  LET domain_records == FindDomainRecords(store, u)
  IN IF domain_records = <<>>
     THEN [domains |-> <<>>, total |-> 0, page |-> page, total_pages |-> 0]
     ELSE LET all_domains == SortByImpact(AggregateDomains(EntriesOf(domain_records), <<>>))
              total_domains == Len(all_domains)
              total_pages == (total_domains + limit - 1) \div limit
              start_idx == (page - 1) * limit
          IN [domains |-> Slice(all_domains, start_idx, start_idx + limit),
              total |-> total_domains, page |-> page, total_pages |-> total_pages,
              has_next |-> page < total_pages, has_prev |-> page > 1]

InitFold ==
  /\ AtRest
  /\ \E store \in DomainStores, limit \in PageLimits :
       fx = [op |-> "fold", store |-> store, limit |-> limit, done |-> FALSE,
             pages |-> <<>>]

\* a client of user u1 asks for page 1 and then for every page up to
\* total_pages
ApplyFold ==
  /\ fx.op = "fold" /\ ~fx.done
  /\ LET first == GetSourceDomains(fx.store, "u1", 1, fx.limit)
     IN fx' = [fx EXCEPT !.done = TRUE,
                         !.pages = [p \in 1..first.total_pages |->
                                      GetSourceDomains(fx.store, "u1", p, fx.limit)]]
  /\ UNCHANGED dbvars

NextFold == ApplyFold

SpecFold == InitFold /\ [][NextFold]_vars

(* ------------------------------ claims --------------------------------- *)
Docs == {id \in ScanIds : scan_progress[id] # NoDoc}
RecordsOf(id) == {k \in 1..Len(scans) : scans[k].of = id}
\* the request r takes its admission step
Admits(r) == rq[r].pc = "admit" /\ rq'[r].pc # "admit"
\* the cost the specification gives each tier
TierCost(t) ==
  CASE t = "quick" -> QuickCost
    [] t = "standard" -> StandardCost
    [] t = "deep" -> DeepCost
    [] t = "competitor" -> CompetitorCost
\* timestamps of the ScanRecords of brand b of user u
StampsOf(u, b) == {scans[k].created_at : k \in ScansOf(u, b)}
LastStamp(u, b) == CHOOSE t \in StampsOf(u, b) : \A x \in StampsOf(u, b) : x <= t
\* no record of the brand, or the last one is 7 times 24 hours old
WeekPassed(u, b) ==
  StampsOf(u, b) = {} \/ now - LastStamp(u, b) >= WeekDays * HoursPerDay

\* C1: the progress values a polling reader can observe for a scan never
\* decrease, and a response that shows the scan completed shows progress
\* equal to total_queries, whatever the tier.
C1_ProgressReachesTotal ==
  [][ /\ \A id \in ScanIds :
           (scan_progress[id] # NoDoc /\ scan_progress'[id] # NoDoc)
             => scan_progress'[id].progress >= scan_progress[id].progress
      /\ (poll'.code = 200 /\ poll'.status = "completed")
           => poll'.progress = poll'.total_queries ]_vars

\* C2: once the status of a ScanProgress record is completed or failed, no
\* later step changes it.
C2_TerminalStatus ==
  [][ \A id \in ScanIds :
        (scan_progress[id] # NoDoc /\ scan_progress[id].status \in {"completed", "failed"})
          => scan_progress'[id].status = scan_progress[id].status ]_vars

\* C3: with T the timestamp of the brand's most recent ScanRecord, a request
\* for that brand is answered 429 when fewer than 7 * 24 hours have passed
\* since T (so at T + 6 days) and, when the quota allows it, is admitted
\* when 7 * 24 hours or more have passed (so at T + 8 days).
C3_WeeklyLimit ==
  [][ \A r \in Reqs :
        LET u == rq[r].user
            b == rq[r].brand
        IN (Admits(r) /\ brands[b].user_id = u /\ StampsOf(u, b) # {})
             => LET elapsed == now - LastStamp(u, b)
                    fits == users[u].scans_used + TierCost(rq[r].scan_type)
                              <= users[u].scans_limit
                IN /\ elapsed < WeekDays * HoursPerDay => rq'[r].resp = 429
                   /\ elapsed = 6 * HoursPerDay => rq'[r].resp = 429
                   /\ (elapsed >= WeekDays * HoursPerDay /\ fits) => rq'[r].pc = "start"
                   /\ (elapsed = 8 * HoursPerDay /\ fits) => rq'[r].pc = "start" ]_vars

\* C3 witness: a request answered 429 exactly 6 days after the brand's last
\* ScanRecord.
C3_Witness ==
  \E r \in Reqs :
    /\ rq[r].pc = "done" /\ rq[r].resp = 429
    /\ StampsOf(rq[r].user, rq[r].brand) # {}
    /\ rq[r].at = LastStamp(rq[r].user, rq[r].brand) + 6 * HoursPerDay

\* C4: a request that passed the brand and weekly checks is answered 400
\* (insufficient scans) exactly when scans_used plus the tier's cost exceeds
\* scans_limit; no other request is answered 400; and a request answered
\* 429 or 400 leaves scan_progress, scans and users as they were.
C4_QuotaAdmission ==
  [][ \A r \in Reqs :
        LET u == rq[r].user
            b == rq[r].brand
            over == users[u].scans_used + TierCost(rq[r].scan_type) > users[u].scans_limit
        IN Admits(r)
             => /\ (brands[b].user_id = u /\ WeekPassed(u, b))
                     => (rq'[r].resp = 400 <=> over)
                /\ rq'[r].resp = 400 => over
                /\ rq'[r].resp \in {400, 429}
                     => /\ rq'[r].pc = "done"
                        /\ scan_progress' = scan_progress
                        /\ scans' = scans
                        /\ users' = users ]_vars

\* C4 witness: the quick scan (cost 5) of a user at 48 of 50 was answered
\* 400 and nothing was created.
C4_Witness ==
  \E r \in Reqs :
    /\ rq[r].pc = "done" /\ rq[r].resp = 400 /\ rq[r].scan_type = "quick"
    /\ users[rq[r].user].scans_used = 48 /\ users[rq[r].user].scans_limit = 50
    /\ Docs = {} /\ scans = <<>>

\* C5: the QueryResult of a query whose provider call raised has
\* brand_mentioned false, empty derived fields and an error message.
C5_FailedCallResult ==
  \A r \in Reqs : \A k \in 1..Len(rq[r].scan_results) :
    rq[r].scan_results[k].call = "api_error"
      => /\ ~rq[r].scan_results[k].brand_mentioned
         /\ rq[r].scan_results[k].derived_empty
         /\ rq[r].scan_results[k].error # ""

\* C6: a scan whose status is failed has no ScanRecord and the user's
\* scans_used still has the value it had before the scan.
C6_FailedLeavesNothing ==
  \A id \in Docs :
    scan_progress[id].status = "failed"
      => /\ RecordsOf(id) = {}
         /\ users[scan_progress[id].user_id].scans_used \in InitUsed

\* C7: in every state, a scan whose status is completed has exactly one
\* ScanRecord, and every ScanRecord belongs to a scan whose status is
\* completed.
C7_OneRecordPerCompleted ==
  /\ \A id \in Docs :
       scan_progress[id].status = "completed" => Cardinality(RecordsOf(id)) = 1
  /\ \A k \in 1..Len(scans) :
       scans[k].of \in Docs /\ scan_progress[scans[k].of].status = "completed"

\* C8: when the request of an admitted scan has ended, the scan has left
\* running: completed after a 200 response, failed with the error captured
\* after a 500 response.
C8_LeavesRunning ==
  \A r \in Reqs :
    (rq[r].pc = "done" /\ rq[r].scan_id # 0)
      => LET d == scan_progress[rq[r].scan_id]
         IN /\ rq[r].resp = 200 => d.status = "completed"
            /\ rq[r].resp = 500 => (d.status = "failed" /\ d.error # "")

\* C9: the step on which run_scan returns 200 adds exactly the tier's cost
\* to the scans_used of the scan's user, and no other step changes any
\* user's scans_used: each scan that runs to completion is counted once, by
\* its tier's cost, whatever the number of queries executed.
C9_UsageByTierCost ==
  [][ /\ \A r \in Reqs :
           (rq[r].pc # "done" /\ rq'[r].pc = "done" /\ rq'[r].resp = 200)
             => users'[rq[r].user].scans_used
                  = users[rq[r].user].scans_used + TierCost(rq[r].scan_type)
      /\ \A u \in Users :
           users'[u] # users[u]
             => \E r \in Reqs :
                  /\ rq[r].user = u /\ rq[r].pc = "count"
                  /\ rq'[r].pc = "done" /\ rq'[r].resp = 200
                  /\ users'[u].scans_limit = users[u].scans_limit ]_vars

\* C9 witness: a deep scan (cost 50) returned 200 after 25 queries and the
\* user's scans_used went from 0 to 50.
C9_Witness ==
  \E r \in Reqs :
    /\ rq[r].pc = "done" /\ rq[r].resp = 200 /\ rq[r].scan_type = "deep"
    /\ users[rq[r].user].scans_used = DeepCost
    /\ \E k \in RecordsOf(rq[r].scan_id) :
         scans[k].total_queries = 25 /\ scans[k].total_queries < DeepCost

\* C10: when run_scan has returned 200, the brand's last_scanned is the
\* time the scan completed and its visibility_score is the scan's score.
C10_BrandUpdated ==
  \A r \in Reqs :
    (rq[r].pc = "done" /\ rq[r].resp = 200)
      => /\ brands[rq[r].brand].last_scanned
              = scan_progress[rq[r].scan_id].completed_at
         /\ \E k \in RecordsOf(rq[r].scan_id) :
              brands[rq[r].brand].visibility_score = scans[k].visibility_score

\* C11: in every ScanRecord, results is as long as queries and results[i]
\* is the result of queries[i], also when the call of some query failed.
C11_ResultsFollowPlan ==
  \A k \in 1..Len(scans) :
    /\ Len(scans[k].results) = Len(scans[k].queries)
    /\ \A i \in 1..Len(scans[k].queries) :
         scans[k].results[i].query = scans[k].queries[i]

\* C11 witness: a stored record of 25 queries whose third query's provider
\* call failed.
C11_Witness ==
  \E k \in 1..Len(scans) :
    /\ Len(scans[k].queries) = 25
    /\ scans[k].results[3].call \in {"api_error", "bad_reply"}

\* the ScanProgress records of brand b of user u that are still running
RunningOf(u, b) ==
  {id \in ScanIds : /\ scan_progress[id] # NoDoc
                    /\ scan_progress[id].status = "running"
                    /\ scan_progress[id].user_id = u
                    /\ scan_progress[id].brand_id = b}
\* indexes of the ScanRecords of (u, b) younger than 7 days
YoungRecords(u, b) ==
  {k \in 1..Len(scans) : /\ scans[k].user_id = u /\ scans[k].brand_id = b
                         /\ now - scans[k].created_at < WeekDays * HoursPerDay}

\* C12: the admission of a request looks at the brand's ScanRecords and at
\* the quota only: a request for an owned brand with no ScanRecord younger
\* than 7 days and enough quota is admitted, also while another scan of the
\* same brand is running, so that two scans of one brand run at once and
\* leave two ScanRecords younger than 7 days.
C12_ConcurrentAdmission ==
  [][ \A r \in ConcReqs :
        LET u == rq[r].user
            b == rq[r].brand
        IN (/\ Admits(r) /\ brands[b].user_id = u /\ YoungRecords(u, b) = {}
            /\ rq[r].cu_used + TierCost(rq[r].scan_type) <= rq[r].cu_limit)
             => rq'[r].pc = "start" ]_vars

\* C12 witness: brand A has two ScanRecords younger than 7 days, made by
\* the two requests, whose ScanProgress records were both created before
\* either record was stored.
C12_Witness ==
  /\ Cardinality(YoungRecords("u1", "A")) = 2
  /\ \A r \in ConcReqs : rq[r].brand = "A" /\ rq[r].pc = "done" /\ rq[r].resp = 200
  /\ \A k \in YoungRecords("u1", "A") :
       \A id \in ScanIds : scan_progress[id].started_at <= scans[k].created_at

\* C13: when run_scan has handed the scan id to its caller (the 200
\* response), the scan is still running, so that a reader who starts polling
\* only then can still observe status running and growing progress values.
C13_ReturnsWhileRunning ==
  \A r \in Reqs :
    (rq[r].pc = "done" /\ rq[r].resp = 200)
      => scan_progress[rq[r].scan_id].status = "running"

\* C14: the weekly limit is per brand: a request is answered 429 only if
\* its own brand has a ScanRecord younger than 7 days, whatever the records
\* of the user's other brands, and a request for an owned brand that has
\* such a record is answered 429.
C14_LimitPerBrand ==
  [][ \A r \in Reqs :
        LET u == rq[r].user
            b == rq[r].brand
        IN Admits(r)
             => /\ rq'[r].resp = 429 => YoungRecords(u, b) # {}
                /\ (brands[b].user_id = u /\ YoungRecords(u, b) # {})
                     => rq'[r].resp = 429 ]_vars

\* C14 witness: within the week after the scan of brand A, a scan of brand
\* B of the same user was admitted and stored.
C14_Witness ==
  \E i, j \in 1..Len(scans) :
    /\ i < j /\ scans[i].user_id = scans[j].user_id
    /\ scans[i].brand_id = "A" /\ scans[j].brand_id = "B"
    /\ scans[j].created_at - scans[i].created_at < WeekDays * HoursPerDay
    /\ scans[j].created_at > scans[i].created_at

\* C15: get_scan_progress answers 200, with the record's status, progress
\* and total_queries, exactly when the scan id has a ScanProgress record
\* whose user is the caller; for an id without a record or with another
\* user's record it answers 404; in both cases it changes nothing in the
\* store.
C15_ProgressOwnerOnly ==
  [][ poll'.code # 0
        => LET id == poll'.scan_id
               owned == scan_progress[id] # NoDoc
                          /\ scan_progress[id].user_id = poll'.caller
           IN /\ owned => /\ poll'.code = 200
                          /\ poll'.status = scan_progress[id].status
                          /\ poll'.progress = scan_progress[id].progress
                          /\ poll'.total_queries = scan_progress[id].total_queries
              /\ ~owned => poll'.code = 404
              /\ scan_progress' = scan_progress /\ scans' = scans
              /\ users' = users /\ brands' = brands ]_vars

\* C15 witness: another user asked for the progress of an existing scan and
\* was answered 404.
C15_Witness ==
  /\ poll.code = 404 /\ poll.caller = "u2"
  /\ scan_progress[poll.scan_id] # NoDoc
  /\ scan_progress[poll.scan_id].user_id = "u1"

\* C16: when run_scan has returned 200 for a brand, get_source_domains and
\* get_source_articles for that brand return total > 0, with or without a
\* configured provider.
C16_SourcesRecorded ==
  \A r \in Reqs :
    (rq[r].pc = "done" /\ rq[r].resp = 200)
      => /\ SourceDomainsTotal(rq[r].user, rq[r].brand) > 0
         /\ SourceArticlesTotal(rq[r].user, rq[r].brand) > 0

\* C17: for every profile and every reply of the LLM (also when the
\* provider is absent or its call raises), the plan that
\* generate_realistic_queries_with_gpt returns has at most 30 entries and
\* contains no string twice.
C17_PlanBoundedNoRepeat ==
  (fx.op = "generate" /\ fx.done)
    => /\ Len(fx.out) <= 30
       /\ \A i, j \in 1..Len(fx.out) : i # j => fx.out[i] # fx.out[j]

\* C18: for every result list, with m the number of results that mention
\* the brand and t the length of the list: m <= t, the visibility score is
\* 100 * m / t (its integer part s has s * t <= 100 * m < (s + 1) * t), it
\* lies in 0..100, it is 0 for the empty list and 40 for 5 results of which
\* 2 mention the brand, and computing it again gives the same value.
C18_VisibilityScore ==
  fx.op = "score"
    => LET t == Len(fx.results)
           m == Cardinality({k \in 1..t : fx.results[k].brand_mentioned})
       IN \A n \in 1..Len(fx.out) :
            LET o == fx.out[n]
                sc == o.visibility_score
            IN /\ o.total_queries = t /\ o.mentioned_queries = m /\ m <= t
               /\ sc \in 0..100
               /\ t = 0 => sc = 0
               /\ t > 0 => (sc * t <= 100 * m /\ 100 * m < (sc + 1) * t)
               /\ (t = 5 /\ m = 2) => sc = 40
               /\ o = fx.out[1]

\* C18 witness: the score of 5 results of which 2 mention the brand was
\* computed twice and is 40.
C18_Witness ==
  /\ fx.op = "score" /\ Len(fx.out) = 2 /\ Len(fx.results) = 5
  /\ fx.out[2].mentioned_queries = 2 /\ fx.out[2].visibility_score = 40

\* the records of a run that were synthesized: their domain, their url is
\* not in the response
Synthesized(run) ==
  [domains |-> {x \in Range(run.source_domains) : x.domain \notin Range(NamesIn(run.response))},
   articles |-> {x \in Range(run.source_articles) : x.url \notin Range(UrlsIn(run.response))}]
\* the records of a run that were extracted from the text of the response
Extracted(run) ==
  [domains |-> {x \in Range(run.source_domains) : x.domain \in Range(NamesIn(run.response))},
   articles |-> {x \in Range(run.source_articles) : x.url \in Range(UrlsIn(run.response))}]
\* the extractor returned at least 1 domain and 3 articles, all from the
\* synthesized pools
FromPools(run) ==
  /\ Len(run.source_domains) >= 1 /\ Len(run.source_articles) >= 3
  /\ \A x \in Range(run.source_domains) :
       x.domain \in Range(BasePool) \cup Range(IndustryPool(run.industry))
  /\ \A x \in Range(run.source_articles) : x.url \in Range(FallbackArticles)

\* C19: applied to the empty response, the extractor returns at least 1
\* domain and at least 3 articles, all from the synthesized pools, and a
\* synthesized record is never equal to a record extracted from the text of
\* a response: some field of it tells that it was synthesized.
C19_FallbackTagged ==
  fx.op = "extract"
    => \A a \in Range(fx.runs) :
         a.response = EmptyResponse
           => /\ FromPools(a)
              /\ \A b \in Range(fx.runs) :
                   /\ Synthesized(a).domains \cap Extracted(b).domains = {}
                   /\ Synthesized(a).articles \cap Extracted(b).articles = {}

\* C20: in every list the extractor returns there are at most 5 records,
\* every impact is an integer strictly between 0 and 100, and the impact at
\* rank i + 1 is strictly lower than the impact at rank i.
C20_ImpactDecreasing ==
  fx.op = "extract"
    => \A run \in Range(fx.runs) :
         \A q \in {[k \in 1..Len(run.source_domains) |-> run.source_domains[k].impact],
                   [k \in 1..Len(run.source_articles) |-> run.source_articles[k].impact]} :
           /\ Len(q) <= 5
           /\ \A k \in 1..Len(q) : q[k] \in 1..99
           /\ \A k \in 1..(Len(q) - 1) : q[k + 1] < q[k]

\* the response of the example: the single line
\* "1. Acme is excellent for automation. 2. Zeta is good but limited."
ExampleResponse ==
  << <<"1.", "BRAND", "excellent", "automation", "2.", "Zeta", "good", "limited">> >>

\* C21: for brand Acme, competitors Zeta and Yeta and the example response,
\* analyze returns brand_mentioned true, ranking_position 1, sentiment
\* positive and competitors_mentioned [Zeta]; and in general the sentiment
\* is the one the positive and negative word counts of the first line with
\* the brand give.
C21_AnalyzeExample ==
  (fx.op = "analyze" /\ fx.done /\ ~fx.out.raised)
    => /\ (fx.response = ExampleResponse /\ fx.brand = "Acme")
            => /\ fx.out.brand_mentioned
               /\ fx.out.ranking_position = 1
               /\ fx.out.sentiment = "positive"
               /\ fx.out.competitors_mentioned = <<"Zeta">>
       /\ fx.out.brand_mentioned
            => LET line == BrandLine(fx.response, fx.brand)
               IN /\ fx.out.sentiment = "positive" <=> PositiveScore(line) > NegativeScore(line)
                  /\ fx.out.sentiment = "negative" <=> NegativeScore(line) > PositiveScore(line)

\* the place of a competitor in the brand profile
FirstSeen(name) == CHOOSE k \in 1..Len(RankCompetitors) : RankCompetitors[k] = name

\* C22: the competitor table is sorted by adjusted visibility score in
\* non-increasing order, its ranks are 1..n in table order, and two
\* competitors with equal score stand in the order in which the brand
\* profile first names them.
C22_RankingOrder ==
  (fx.op = "rank" /\ fx.done)
    => /\ \A k \in 1..Len(fx.out) : fx.out[k].rank = k
       /\ \A k \in 1..(Len(fx.out) - 1) :
            fx.out[k].visibility_score >= fx.out[k + 1].visibility_score
       /\ \A i, j \in 1..Len(fx.out) :
            (/\ i < j /\ fx.out[i].visibility_score = fx.out[j].visibility_score
             /\ ~fx.out[i].is_user_brand /\ ~fx.out[j].is_user_brand)
              => FirstSeen(fx.out[i].name) < FirstSeen(fx.out[j].name)

\* C23: analyze never raises, for every response and every brand name
\* (the empty string and names made of punctuation included), and its
\* result has every documented field.
C23_AnalyzeTotal ==
  (fx.op = "analyze" /\ fx.done)
    => /\ ~fx.out.raised
       /\ {"brand_mentioned", "ranking_position", "sentiment", "competitors_mentioned",
           "key_features", "target_audience", "use_cases"} \subseteq DOMAIN fx.out

\* C24: while a scan is running, the persisted progress is the number of
\* QueryResults produced so far: it never counts a query whose call is
\* still in flight.
C24_ProgressCountsResults ==
  \A r \in Reqs :
    (/\ rq[r].pc \in {"generate", "update", "call", "complete"}
     /\ scan_progress[rq[r].scan_id].status = "running")
      => scan_progress[rq[r].scan_id].progress = Len(rq[r].scan_results)

\* C25: every query stored in the ScanRecord of a scan of the competitor
\* tier mentions a known competitor of the brand (checked on the plans
\* taken from the fallback list, whose wording is known).
C25_CompetitorTierFilter ==
  \A k \in 1..Len(scans) :
    (scans[k].scan_type = "competitor" /\ ~configured)
      => \A i \in 1..Len(scans[k].queries) :
           scans[k].queries[i] \in FallbackWithCompetitor

\* C26: when the first line with the brand has no leading numeric marker
\* but an ordinal phrase, ranking_position is the value of the phrase (top
\* choice 1, runner-up 2, also consider 3, worth mentioning 4) whatever
\* competitors precede the brand; the number of preceding competitors plus
\* 1, at most 5, is the position only when the line has neither.
C26_OrdinalPhrase ==
  (fx.op = "analyze" /\ fx.done /\ ~fx.out.raised /\ fx.out.brand_mentioned)
    => LET line == BrandLine(fx.response, fx.brand)
       IN /\ (MarkerOf(line) = 0 /\ OrdinalOf(line) > 0)
               => fx.out.ranking_position = OrdinalOf(line)
          /\ (MarkerOf(line) = 0 /\ OrdinalOf(line) = 0)
               => fx.out.ranking_position
                    = Min(CompetitorMentionsBefore(fx.response, fx.brand) + 1, 5)

\* C27: two applications of the extractor to the same response, brand and
\* industry return the same domains and the same articles, in the same
\* order and with the same impact and count values.
C27_ExtractorDeterministic ==
  fx.op = "extract"
    => \A a, b \in Range(fx.runs) :
         (a.response = b.response /\ a.industry = b.industry)
           => /\ a.source_domains = b.source_domains
              /\ a.source_articles = b.source_articles

\* C28: when a scan is marked failed after k queries were processed, the
\* results field of its ScanProgress record holds those k QueryResults,
\* together with the error.
C28_PartialResultsKept ==
  [][ \A r \in Reqs :
        LET id == rq[r].scan_id
        IN (/\ rq[r].pc = "except" /\ rq'[r].pc = "done"
            /\ scan_progress'[id].status = "failed")
             => /\ scan_progress'[id].results = rq[r].scan_results
                /\ scan_progress'[id].error # "" ]_vars

RECURSIVE SumOf(_, _, _)
\* the sum of one field over the entries that name domain d
SumOf(entries, d, field) ==
  IF entries = <<>> THEN 0
  ELSE (IF entries[1].domain = d THEN entries[1][field] ELSE 0)
         + SumOf(Tail(entries), d, field)

\* every entry user u has stored, and the entries the pages list
StoredEntries(store, u) ==
  EntriesOf(SelectSeq(store, LAMBDA rec : rec.user_id = u))
Listed(pages) == Flatten([p \in 1..Len(pages) |-> pages[p].domains])

\* C29: for every store and every limit >= 1 the pages 1..total_pages of
\* get_source_domains list every distinct stored domain exactly once, each
\* with the sums of impact and mentions over all the user's records, in
\* non-increasing order of summed impact; total_pages is ceil(total / limit)
\* and has_next is true exactly when page < total_pages.
C29_FoldAndPages ==
  (fx.op = "fold" /\ fx.done) =>
    LET all == StoredEntries(fx.store, "u1")
        names == {all[k].domain : k \in 1..Len(all)}
        listed == Listed(fx.pages)
        total == Cardinality(names)
    IN /\ Len(fx.pages) = (total + fx.limit - 1) \div fx.limit
       /\ Len(listed) = total
       /\ {listed[k].domain : k \in 1..Len(listed)} = names
       /\ \A k \in 1..Len(listed) :
            /\ listed[k].impact = SumOf(all, listed[k].domain, "impact")
            /\ listed[k].mentions = SumOf(all, listed[k].domain, "mentions")
       /\ \A k \in 1..(Len(listed) - 1) : listed[k].impact >= listed[k + 1].impact
       /\ \A p \in 1..Len(fx.pages) :
            /\ fx.pages[p].total = total
            /\ fx.pages[p].total_pages = Len(fx.pages)
            /\ fx.pages[p].has_next = (p < Len(fx.pages))

\* C30: the plan limit being what it was at registration, scans_used of a
\* user never exceeds scans_limit, also when two scans of the same user are
\* in flight at once: each request compares the scans_used it read when it
\* started with the limit and adds its cost only at the end.
C30_UsageWithinLimit ==
  \A u \in Users : users[u].scans_used <= users[u].scans_limit
====
